---- MODULE Spec2Model ----
(***************************************************************************)
(* BOQ extraction (extract_boq.py): the row classifier parse_boq_row, the  *)
(* table harvester extract_boq_from_pdf and the library assembler main.    *)
(* Python strings are TLA+ strings, a dict is a function whose domain is   *)
(* the set of its keys, a list is a sequence.                              *)
(***************************************************************************)
EXTENDS Integers, Sequences, FiniteSets, TLC

(***************************************************************************)
(* Python string primitives used by the source.                            *)
(***************************************************************************)
Ch(s, i) == SubSeq(s, i, i)

UpperChars == "ABCDEFGHIJKLMNOPQRSTUVWXYZ"

LowerChars == "abcdefghijklmnopqrstuvwxyz"

DigitChars == "0123456789"

UpperSet == { Ch(UpperChars, i) : i \in 1..Len(UpperChars) }

DigitSet == { Ch(DigitChars, i) : i \in 1..Len(DigitChars) }

IsUpper(c) == c \in UpperSet

IsDigit(c) == c \in DigitSet

IsSpace(c) == c = " "

RECURSIVE lstrip(_)
lstrip(s) ==
    IF Len(s) > 0 /\ IsSpace(Ch(s, 1)) THEN lstrip(SubSeq(s, 2, Len(s))) ELSE s

RECURSIVE rstrip(_)
rstrip(s) ==
    IF Len(s) > 0 /\ IsSpace(Ch(s, Len(s))) THEN rstrip(SubSeq(s, 1, Len(s) - 1)) ELSE s

\* str.strip()
strip(s) == lstrip(rstrip(s))

LowerOf ==
    [c \in UpperSet |->
        Ch(LowerChars, CHOOSE i \in 1..Len(UpperChars) : Ch(UpperChars, i) = c)]

LowerCh(c) == IF IsUpper(c) THEN LowerOf[c] ELSE c

\* str.lower()
RECURSIVE lower(_)
lower(s) == IF Len(s) = 0 THEN s ELSE LowerCh(Ch(s, 1)) \o lower(SubSeq(s, 2, Len(s)))

\* keyword in s
Contains(s, sub) ==
    \E i \in 1..(Len(s) - Len(sub) + 1) : SubSeq(s, i, i + Len(sub) - 1) = sub

\* s.replace(old, new) : leftmost non-overlapping occurrences replaced
RECURSIVE replace(_, _, _)
replace(s, old, new) ==
    IF Len(s) < Len(old) THEN s
    ELSE LET hit == SubSeq(s, 1, Len(old)) = old
             k == IF hit THEN Len(old) ELSE 1
         IN  (IF hit THEN new ELSE Ch(s, 1))
                 \o replace(SubSeq(s, k + 1, Len(s)), old, new)

\* str(n) for a natural number n
RECURSIVE str_int(_)
str_int(n) ==
    IF n < 10 THEN Ch(DigitChars, n + 1)
    ELSE str_int(n \div 10) \o Ch(DigitChars, (n % 10) + 1)

AllDigits(s) == \A i \in 1..Len(s) : IsDigit(Ch(s, i))

AllUpper(s) == \A i \in 1..Len(s) : IsUpper(Ch(s, i))

(***************************************************************************)
(* Floats.  A finite value is m * 10^(-e), kept normalised (no trailing    *)
(* zero in the fraction), so equal numbers are equal records.  The cells   *)
(* of the model carry no exponent ('e') and no digit separator ('_').      *)
(***************************************************************************)
RECURSIVE Norm(_, _)
Norm(m, e) ==
    IF m = 0 THEN [k |-> "fin", m |-> 0, e |-> 0]
    ELSE IF e > 0 /\ m % 10 = 0 THEN Norm(m \div 10, e - 1)
    ELSE [k |-> "fin", m |-> m, e |-> e]

Nan == [k |-> "nan", m |-> 0, e |-> 0]

Inf(sign) == [k |-> "inf", m |-> sign, e |-> 0]

ValueError == [k |-> "ValueError", m |-> 0, e |-> 0]

DigitValOf ==
    [c \in DigitSet |-> (CHOOSE i \in 1..Len(DigitChars) : Ch(DigitChars, i) = c) - 1]

DigitVal(c) == DigitValOf[c]

RECURSIVE IntOf(_)
IntOf(s) ==
    IF Len(s) = 0 THEN 0
    ELSE 10 * IntOf(SubSeq(s, 1, Len(s) - 1)) + DigitVal(Ch(s, Len(s)))

\* the unsigned part of a float literal: nan, inf, infinity, or digits with
\* at most one point and at least one digit
Unsigned(b, sign) ==
    LET low == IF Len(b) \in {3, 8} THEN lower(b) ELSE b
        \* the place of the point, or past the end
        d == IF \E i \in 1..Len(b) : Ch(b, i) = "."
             THEN CHOOSE i \in 1..Len(b) : Ch(b, i) = "."
             ELSE Len(b) + 1
        ip == SubSeq(b, 1, d - 1)
        fp == SubSeq(b, d + 1, Len(b))
    IN  IF low = "nan" THEN Nan
        ELSE IF low \in {"inf", "infinity"} THEN Inf(sign)
        ELSE IF AllDigits(ip \o fp) /\ Len(ip) + Len(fp) > 0
        THEN Norm(sign * IntOf(ip \o fp), Len(fp))
        ELSE ValueError

\* float(s): the value, or ValueError
float(s) ==
    LET t == strip(s)
        signed == Len(t) > 0 /\ Ch(t, 1) \in {"-", "+"}
    IN  IF Len(t) = 0 THEN ValueError
        ELSE Unsigned(IF signed THEN SubSeq(t, 2, Len(t)) ELSE t,
                      IF Ch(t, 1) = "-" THEN -1 ELSE 1)

\* rate > 0 (a comparison with nan is false)
Positive(v) == (v.k = "fin" /\ v.m > 0) \/ (v.k = "inf" /\ v.m > 0)

(***************************************************************************)
(* Regular expressions of parse_boq_row.                                   *)
(***************************************************************************)
\* re.match(r'^[A-Z]{1,3}[-]?\d{1,4}[A-Z]?$', cell)
code_pattern(cell) ==
    \E a \in 1..3, h \in 0..1, d \in 1..4, t \in 0..1 :
        /\ Len(cell) = a + h + d + t
        /\ IsUpper(Ch(cell, 1))
        /\ AllUpper(SubSeq(cell, 1, a))
        /\ h = 1 => Ch(cell, a + 1) = "-"
        /\ AllDigits(SubSeq(cell, a + h + 1, a + h + d))
        /\ AllUpper(SubSeq(cell, a + h + d + 1, a + h + d + t))

IsNumCh(c) == IsDigit(c) \/ c = ","

\* end of the longest run of digits and commas that starts at i
RECURSIVE NumRunEnd(_, _)
NumRunEnd(s, i) ==
    IF i <= Len(s) /\ IsNumCh(Ch(s, i)) THEN NumRunEnd(s, i + 1) ELSE i - 1

\* end of the longest run of digits that starts at i
RECURSIVE DigitRunEnd(_, _)
DigitRunEnd(s, i) ==
    IF i <= Len(s) /\ IsDigit(Ch(s, i)) THEN DigitRunEnd(s, i + 1) ELSE i - 1

\* re.findall(r'[\d,]+\.?\d*', cell): the list of matches; only numbers[0]
\* is read, so the list holds the first match or is empty
findall_numbers(cell) ==
    IF \E i \in 1..Len(cell) : IsNumCh(Ch(cell, i))
    THEN LET i == CHOOSE p \in 1..Len(cell) :
                     /\ IsNumCh(Ch(cell, p))
                     /\ \A q \in 1..(p - 1) : ~IsNumCh(Ch(cell, q))
             j == NumRunEnd(cell, i)
             z == IF j < Len(cell) /\ Ch(cell, j + 1) = "."
                  THEN DigitRunEnd(cell, j + 2)
                  ELSE j
         IN  <<SubSeq(cell, i, z)>>
    ELSE <<>>

(***************************************************************************)
(* Cells as the table extractor hands them over: a string, None, or (the   *)
(* unexpected input) an object whose conversion to a string raises.        *)
(***************************************************************************)
Str(s) == [t |-> "str", v |-> s]

NoneCell == [t |-> "None", v |-> ""]

ObjCell == [t |-> "obj", v |-> ""]

\* the truth value of a cell: None and '' are false
Truthy(cell) == cell.t = "obj" \/ (cell.t = "str" /\ cell.v # "")

\* Python's None, and an exception leaving a function
None == [None |-> TRUE]

Exception == [Exception |-> TRUE]

\* d[k] = v
SetKey(d, k, v) == [y \in DOMAIN d \cup {k} |-> IF y = k THEN v ELSE d[y]]

(***************************************************************************)
(* parse_boq_row                                                           *)
(***************************************************************************)
\* cleaned = [str(cell).strip() if cell else '' for cell in row]
\* (str(cell) raises for an object cell: str_raises)
str_raises(row) == \E i \in 1..Len(row) : row[i].t = "obj"

cleaned_of(row) ==
    [i \in 1..Len(row) |-> IF Truthy(row[i]) THEN strip(row[i].v) ELSE ""]

keywords == {"omr", "rate", "price", "amount"}

has_keyword(cell) ==
    LET low == lower(cell)
    IN  \E keyword \in keywords : Contains(low, keyword)

\* item['rate'] = float(...), skipped when float raises ValueError
set_rate(item, v) == IF v = ValueError THEN item ELSE SetKey(item, "rate", v)

\* float(numbers[0].replace(',', '')) if numbers
first_number(numbers) ==
    IF numbers # <<>> THEN float(replace(numbers[1], ",", "")) ELSE ValueError

\* the labeled-rate branch: the first number of the cell, when it parses
labeled_rate(item, cell) == set_rate(item, first_number(findall_numbers(cell)))

\* scan_cell with the first code kept instead of the last
scan_cell_first_code(item, cell) ==
    IF code_pattern(cell)
    THEN (IF "code" \in DOMAIN item THEN item ELSE SetKey(item, "code", cell))
    ELSE IF has_keyword(cell) THEN labeled_rate(item, cell)
    ELSE IF Len(cell) > 20 THEN SetKey(item, "description", cell)
    ELSE item

\* scan_cell with the description branch tried before the labeled-rate branch
scan_cell_description_first(item, cell) ==
    IF code_pattern(cell) THEN SetKey(item, "code", cell)
    ELSE IF Len(cell) > 20 THEN SetKey(item, "description", cell)
    ELSE IF has_keyword(cell) THEN labeled_rate(item, cell)
    ELSE item

\* one iteration of the loop over enumerate(cleaned)
scan_cell(item, cell) ==
    IF code_pattern(cell) THEN SetKey(item, "code", cell)
    ELSE IF has_keyword(cell) THEN labeled_rate(item, cell)
    ELSE IF Len(cell) > 20 THEN SetKey(item, "description", cell)
    ELSE item

\* the loop over enumerate(cleaned), cells i..len
RECURSIVE scan(_, _, _)
scan(item, cleaned, i) ==
    IF i > Len(cleaned) THEN item
    ELSE scan(scan_cell(item, cleaned[i]), cleaned, i + 1)

\* float(cell.replace(',', '').replace('OMR', '').strip())
fallback_float(cell) == float(strip(replace(replace(cell, ",", ""), "OMR", "")))

\* the rate a cell of the reversed loop offers: its value when it is
\* non-empty and parses as a number > 0
RateOf(v) == IF Positive(v) THEN v ELSE ValueError

fallback_rate(cell) ==
    IF cell # "" THEN RateOf(fallback_float(cell)) ELSE ValueError

\* the cell at which the loop over reversed(cleaned) breaks: the last one
\* among cells 1..i that offers a rate, or 0
RECURSIVE break_at(_, _)
break_at(cleaned, i) ==
    IF i < 1 \/ fallback_rate(cleaned[i]) # ValueError THEN i
    ELSE break_at(cleaned, i - 1)

rate_at(item, cleaned, i) ==
    IF i < 1 THEN item ELSE SetKey(item, "rate", fallback_rate(cleaned[i]))

\* fallback that leaves a rate of the labeled-rate rule in place
fallback_keeps_rate(item, cleaned, i) ==
    IF "rate" \in DOMAIN item THEN item
    ELSE rate_at(item, cleaned, break_at(cleaned, i))

\* the loop over reversed(cleaned), cells i..1
fallback(item, cleaned, i) == rate_at(item, cleaned, break_at(cleaned, i))

\* the acceptance test with a rate accepted as well
accept_with_rate(item) ==
    IF "code" \in DOMAIN item \/ "description" \in DOMAIN item \/ "rate" \in DOMAIN item
    THEN item
    ELSE None

\* if 'code' in item or 'description' in item: return item; return None
accept(item) ==
    IF "code" \in DOMAIN item \/ "description" \in DOMAIN item THEN item ELSE None

\* the two loops over the cleaned cells
classify(item, cleaned) == fallback(scan(item, cleaned, 1), cleaned, Len(cleaned))

\* the statements inside the try block
parse_boq_row_try(row, header, category) ==
    IF str_raises(row) THEN Exception
    ELSE accept(classify([category |-> category, raw_data |-> cleaned_of(row)],
                         cleaned_of(row)))

\* a function body without its except clause
no_except(r) == r

\* except Exception: return None
except_return_None(r) == IF r = Exception THEN None ELSE r

\* try: ... except Exception: return None
parse_boq_row(row, header, category) ==
    except_return_None(parse_boq_row_try(row, header, category))

(***************************************************************************)
(* Inputs of the row classifier.                                           *)
(***************************************************************************)
MaxCells == 3

CellPool ==
    { Str("LF01"), Str(" MA-201 "),
      Str("Executive Desk 1800x900mm"),
      Str("Office Chair, Mesh Back"),
      Str("Unit rate OMR: 1,250.50"), Str("price ,"),
      Str("125.50"), Str("OMR 30"), Str("0"), Str(""),
      NoneCell, ObjCell }

Categories == {"furniture", "fitout"}

(***************************************************************************)
(* extract_boq_from_pdf.  A pdf is what pdfplumber and the file system     *)
(* answer for its path: whether it opens, its pages (text and tables), and *)
(* whether the debug file next to it can be opened for writing.            *)
(***************************************************************************)
Missing == [Missing |-> TRUE]

\* tables_data entries of one page: the non-empty tables, tagged with the page
RECURSIVE page_tables(_, _, _)
page_tables(tables, page_no, i) ==
    IF i > Len(tables) THEN <<>>
    ELSE (IF tables[i] # <<>>
          THEN <<[page |-> page_no, data |-> tables[i]]>>
          ELSE <<>>) \o page_tables(tables, page_no, i + 1)

\* the loop over enumerate(pdf.pages), pages n..len
RECURSIVE read_pages(_, _, _, _)
read_pages(pages, n, full_text, tables_data) ==
    IF n > Len(pages) THEN [full_text |-> full_text, tables_data |-> tables_data]
    ELSE read_pages(pages, n + 1,
            IF pages[n].text # ""
            THEN full_text \o "\n--- Page " \o str_int(n) \o " ---\n" \o pages[n].text
            ELSE full_text,
            tables_data \o page_tables(pages[n].tables, n, 1))

\* items.append(item) if item; an exception of parse_boq_row leaves the loop
append_item(acc, it) ==
    IF it = Exception THEN [acc EXCEPT !.raised = TRUE]
    ELSE IF it # None THEN [acc EXCEPT !.items = Append(@, it)]
    ELSE acc

\* parse_row with rows of two cells offered as well
parse_row_two_cells(acc, row, header, category) ==
    IF row # <<>> /\ Len(row) >= 2
    THEN append_item(acc, parse_boq_row(row, header, category))
    ELSE acc

\* the body of the loop over table[1:]: acc is the list so far, and whether
\* an exception has left the loop
parse_row(acc, row, header, category) ==
    IF row # <<>> /\ Len(row) >= 3
    THEN append_item(acc, parse_boq_row(row, header, category))
    ELSE acc

\* the loop over table[1:], rows i..len
RECURSIVE parse_rows(_, _, _, _, _)
parse_rows(table, header, category, i, acc) ==
    IF i > Len(table) \/ acc.raised THEN acc
    ELSE parse_rows(table, header, category, i + 1,
                    parse_row(acc, table[i], header, category))

\* parse_table with the header row classified like a data row
parse_table_with_header(acc, table, category) ==
    IF Len(table) > 1
    THEN parse_rows(table, table[1], category, 1, acc)
    ELSE acc

\* the body of the loop over tables_data; header = table[0]
parse_table(acc, table, category) ==
    IF Len(table) > 1
    THEN parse_rows(table, table[1], category, 2, acc)
    ELSE acc

\* the loop over tables_data, tables t..len
RECURSIVE parse_tables(_, _, _, _)
parse_tables(tables_data, category, t, acc) ==
    IF t > Len(tables_data) \/ acc.raised THEN acc
    ELSE parse_tables(tables_data, category, t + 1,
                      parse_table(acc, tables_data[t].data, category))

\* return items, full_text, unless an exception left the parsing loops
returned(r, full_text, dbg) ==
    IF r.raised
    THEN [raised |-> TRUE, items |-> <<>>, text |-> "", debug |-> dbg]
    ELSE [raised |-> FALSE, items |-> r.items, text |-> full_text, debug |-> dbg]

\* the statements after the loop over the pages: the debug file is written
\* (open() raises when it is not writable), then the tables are parsed
write_and_parse(pdf, category, rd) ==
    IF ~pdf.debug_writable
    THEN [raised |-> TRUE, items |-> <<>>, text |-> "", debug |-> Missing]
    ELSE returned(parse_tables(rd.tables_data, category, 1,
                               [raised |-> FALSE, items |-> <<>>]),
                  rd.full_text,
                  [text |-> rd.full_text, tables |-> rd.tables_data])

\* the statements inside the try block: what is returned, whether an
\* exception left the block, and the debug file as far as it was written
extract_boq_from_pdf_try(pdf, category) ==
    IF ~pdf.opens
    THEN [raised |-> TRUE, items |-> <<>>, text |-> "", debug |-> Missing]
    ELSE write_and_parse(pdf, category, read_pages(pdf.pages, 1, "", <<>>))

\* an exception leaves the function
propagate(r) == r

\* except Exception as e: return [], ""
except_return_empty(r) ==
    IF r.raised
    THEN [raised |-> FALSE, items |-> <<>>, text |-> "", debug |-> r.debug]
    ELSE r

\* try: ... except Exception: return [], ""
extract_boq_from_pdf(pdf, category) ==
    except_return_empty(extract_boq_from_pdf_try(pdf, category))

(***************************************************************************)
(* Inputs of the harvester: a document of at most MaxDocRows rows drawn    *)
(* from RowPool, laid out by a mark for every row: it continues the        *)
(* current table, opens a table on the current page, or opens a page.      *)
(***************************************************************************)
MaxDocRows == 4

ShortRow == <<Str("LF01"), Str("Executive Desk 1800x900mm")>>

SparseRow == <<Str("LF01"), NoneCell, Str("")>>

FullRow == <<Str(" MA-201 "), Str("price ,"), Str("Office Chair, Mesh Back")>>

ObjRow == <<Str("EQ-05A"), ObjCell, Str("125.50")>>

RowPool == {ShortRow, SparseRow, FullRow, ObjRow}

Marks == {"row", "table", "page"}

PageText == "Bill of Quantities"

AddRow(pages, r, mark) ==
    IF pages = <<>> \/ mark = "page"
    THEN Append(pages, [text |-> PageText, tables |-> << <<r>> >>])
    ELSE LET n == Len(pages)
             ts == pages[n].tables
         IN  IF mark = "table"
             THEN [pages EXCEPT ![n].tables = Append(ts, <<r>>)]
             ELSE [pages EXCEPT ![n].tables[Len(ts)] = Append(@, r)]

\* the first row opens the first page; marks[i] lays out row i >= 2
RECURSIVE Layout(_, _, _, _)
Layout(rows, marks, i, pages) ==
    IF i > Len(rows) THEN pages
    ELSE Layout(rows, marks, i + 1,
                AddRow(pages, rows[i], IF i = 1 THEN "page" ELSE marks[i]))

Pdf(opens, writable, pages) ==
    [opens |-> opens, debug_writable |-> writable, pages |-> pages]

\* f is a pdf of the harvester's inputs: a file that does not open (it has
\* no pages to offer), or one that opens onto a layout of rows of RowPool
IsPdf(f) ==
    \E w \in BOOLEAN :
        \/ f = Pdf(FALSE, w, <<>>)
        \/ \E n \in 0..MaxDocRows :
             \E rows \in [1..n -> RowPool], marks \in [2..n -> Marks] :
                f = Pdf(TRUE, w, Layout(rows, marks, 1, <<>>))

(***************************************************************************)
(* Inputs of main: the two configured paths, each missing or a pdf of one  *)
(* table of at most MaxMainRows rows.                                      *)
(***************************************************************************)
MaxMainRows == 3

furniture_path == "BOQ_Furniture.pdf"

fitout_path == "BOQ_FitOut.pdf"

library_path == "boq_library_raw.json"

MainRowPool == {SparseRow, FullRow}

\* the one-table layouts of at most MaxMainRows rows
OneTable ==
    UNION { { Layout(rows, [i \in 2..n |-> "row"], 1, <<>>) :
                rows \in [1..n -> MainRowPool] } : n \in 0..MaxMainRows }

Files ==
    {Missing} \cup {Pdf(FALSE, TRUE, <<>>)} \cup
    { Pdf(TRUE, w, p) : w \in BOOLEAN, p \in OneTable }

\* pdf_path.replace('.pdf', '_extracted.txt')
debug_file(pdf_path) == replace(pdf_path, ".pdf", "_extracted.txt")

\* os.path.exists(path)
exists(files, path) == path \in DOMAIN files /\ files[path] # Missing

Idle == [Idle |-> TRUE]

VARIABLES pc, row, item, pdf, ret, fs, boq_library

vars == <<pc, row, item, pdf, ret, fs, boq_library>>

(***************************************************************************)
(* SpecRow: parse_boq_row applied to every row over CellPool.              *)
(***************************************************************************)
RowInit ==
    /\ pc = "call"
    /\ \E n \in 0..MaxCells : row \in [1..n -> CellPool]
    /\ item = None
    /\ pdf = Idle /\ ret = Idle /\ fs = Idle /\ boq_library = Idle

\* item = parse_boq_row(row, header, category)
Classify ==
    /\ pc = "call"
    /\ \E category \in Categories :
          item' = parse_boq_row(row, <<>>, category)
    /\ pc' = "classified"
    /\ UNCHANGED <<row, pdf, ret, fs, boq_library>>

RowNext == Classify

SpecRow == RowInit /\ [][RowNext]_vars

(***************************************************************************)
(* SpecHarvest: extract_boq_from_pdf applied to every pdf of Pdfs.         *)
(***************************************************************************)
HarvestInit ==
    /\ pc = "call"
    /\ IsPdf(pdf)
    /\ ret = Idle
    /\ row = Idle /\ item = Idle /\ fs = Idle /\ boq_library = Idle

\* items, text = extract_boq_from_pdf(pdf_path, category)
Harvest ==
    /\ pc = "call"
    /\ \E category \in Categories :
          ret' = [category |-> category] @@ extract_boq_from_pdf(pdf, category)
    /\ pc' = "returned"
    /\ UNCHANGED <<row, item, pdf, fs, boq_library>>

HarvestNext == Harvest

SpecHarvest == HarvestInit /\ [][HarvestNext]_vars

(***************************************************************************)
(* Spec: main, one action per block of the function.                       *)
(***************************************************************************)
Init ==
    /\ pc = "furniture"
    /\ fs \in [{furniture_path, fitout_path} -> Files]
    /\ boq_library =
          [metadata |-> [extracted_date |-> "2026-01-15", currency |-> "OMR",
                         vat_rate |-> Norm(5, 2),
                         source |-> "Carbon Engineering BOQ Standards"],
           furniture |-> <<>>, fitout |-> <<>>, materials |-> <<>>]
    /\ row = Idle /\ item = Idle /\ pdf = Idle /\ ret = Idle

\* boq_library[bucket] = items, after the debug file was written next to
\* the pdf; an exception out of extract_boq_from_pdf ends main
store(path, bucket, next, r) ==
    /\ fs' = IF r.debug # Missing THEN SetKey(fs, debug_file(path), r.debug) ELSE fs
    /\ pc' = IF r.raised THEN "crashed" ELSE next
    /\ boq_library' = IF r.raised THEN boq_library
                      ELSE SetKey(boq_library, bucket, r.items)

\* one "if os.path.exists(path): items, text = extract_boq_from_pdf(path,
\* category); boq_library[bucket] = items" block, then control moves to next
ExtractInto(path, category, bucket, next) ==
    IF exists(fs, path)
    THEN store(path, bucket, next, extract_boq_from_pdf(fs[path], category))
    ELSE pc' = next /\ UNCHANGED <<fs, boq_library>>

\* # Extract Furniture BOQ
ExtractFurniture ==
    /\ pc = "furniture"
    /\ ExtractInto(furniture_path, "furniture", "furniture", "fitout")
    /\ UNCHANGED <<row, item, pdf, ret>>

\* ExtractFitout storing its items under the furniture key
ExtractFitout_into_furniture ==
    /\ pc = "fitout"
    /\ ExtractInto(fitout_path, "fitout", "furniture", "save")
    /\ UNCHANGED <<row, item, pdf, ret>>

\* # Extract Fit-Out BOQ
ExtractFitout ==
    /\ pc = "fitout"
    /\ ExtractInto(fitout_path, "fitout", "fitout", "save")
    /\ UNCHANGED <<row, item, pdf, ret>>

\* # Save extracted library: the output file opens for writing, or main raises
SaveLibrary ==
    /\ pc = "save"
    /\ \E writable \in BOOLEAN :
          IF writable
          THEN fs' = SetKey(fs, library_path, boq_library) /\ pc' = "done"
          ELSE pc' = "save_failed" /\ UNCHANGED fs
    /\ UNCHANGED <<boq_library, row, item, pdf, ret>>

Next == ExtractFurniture \/ ExtractFitout \/ SaveLibrary

Spec == Init /\ [][Next]_vars

(***************************************************************************)
(* Properties of parse_boq_row (SpecRow).                                  *)
(***************************************************************************)
Max(S) == CHOOSE x \in S : \A y \in S : y <= x

Classified == pc = "classified"

\* the trimmed text of the cells of the row under classification
Trimmed == [i \in 1..Len(row) |-> IF row[i].t = "str" THEN strip(row[i].v) ELSE ""]

CodeCells == { i \in 1..Len(row) : code_pattern(Trimmed[i]) }

DescriptionCells ==
    { i \in 1..Len(row) :
        Len(Trimmed[i]) > 20 /\ ~code_pattern(Trimmed[i]) /\ ~has_keyword(Trimmed[i]) }

\* the value the labeled-rate rule reads in a cell, or ValueError
LabeledValue(cell) ==
    IF code_pattern(cell) \/ ~has_keyword(cell) \/ findall_numbers(cell) = <<>>
    THEN ValueError
    ELSE float(replace(findall_numbers(cell)[1], ",", ""))

LabeledCells == { i \in 1..Len(row) : LabeledValue(Trimmed[i]) # ValueError }

PositiveCells ==
    { i \in 1..Len(row) : Trimmed[i] # "" /\ Positive(fallback_float(Trimmed[i])) }

\* C1: parse_boq_row returns an item if and only if the row has a cell the
\* scan takes as code or as description; a row with neither yields None, also
\* when a rate could be extracted from it.
C1_ItemIffCodeOrDescription ==
    Classified =>
        /\ (item # None) <=>
               (~str_raises(row) /\ (CodeCells # {} \/ DescriptionCells # {}))
        /\ item # None => ("code" \in DOMAIN item \/ "description" \in DOMAIN item)

\* C1 witness: a row with an extractable rate and neither code nor description
\* was classified and rejected.
C1_RateOnlyRowRejected ==
    /\ Classified /\ ~str_raises(row)
    /\ PositiveCells # {}
    /\ item = None

\* C4 as stated: the item's code equals the trimmed text of every cell that
\* matches the code pattern.
C4_CodeEqualsEveryCodeCell ==
    (Classified /\ item # None) =>
        \A i \in CodeCells : "code" \in DOMAIN item /\ item.code = Trimmed[i]

\* C4 amended: when some cell matches the code pattern (and no cell's
\* conversion raises) an item is produced and its code is the trimmed text of
\* the rightmost matching cell, wherever it stands; without a matching cell
\* the item has no code.
C4_CodeIsRightmostCodeCell ==
    (Classified /\ ~str_raises(row)) =>
        IF CodeCells # {}
        THEN item # None /\ "code" \in DOMAIN item
             /\ item.code = Trimmed[Max(CodeCells)]
        ELSE item = None \/ "code" \notin DOMAIN item

\* C4 witness: two cells with different codes, the item carries the second.
C4_TwoCodesClassified ==
    /\ Classified /\ item # None
    /\ \E i, j \in CodeCells :
          i < j /\ Trimmed[i] # Trimmed[j] /\ row[j].v # Trimmed[j]
          /\ item.code = Trimmed[j]

\* C5: the rate of an item is the value of the rightmost non-empty cell that
\* parses (commas and "OMR" removed, trimmed) as a number > 0, whatever the
\* labeled-rate rule set; without such a cell it is the rate of the
\* labeled-rate rule (its last successful cell), or absent.
C5_RateIsRightmostPositiveCell ==
    (Classified /\ item # None) =>
        IF PositiveCells # {}
        THEN "rate" \in DOMAIN item
             /\ item.rate = fallback_float(Trimmed[Max(PositiveCells)])
        ELSE IF LabeledCells # {}
        THEN "rate" \in DOMAIN item
             /\ item.rate = LabeledValue(Trimmed[Max(LabeledCells)])
        ELSE "rate" \notin DOMAIN item

\* C5 witness: the labeled-rate rule read one value, the fallback another,
\* and the item carries the fallback's.
C5_LabeledRateOverwritten ==
    /\ Classified /\ item # None
    /\ PositiveCells # {} /\ LabeledCells # {}
    /\ Max(LabeledCells) < Max(PositiveCells)
    /\ LabeledValue(Trimmed[Max(LabeledCells)]) # item.rate

\* C9: the description of an item is the rightmost cell longer than 20
\* characters that neither matches the code pattern nor contains a rate
\* token; without such a cell the item has no description.
C9_DescriptionIsRightmostPlainLongCell ==
    (Classified /\ item # None) =>
        IF DescriptionCells # {}
        THEN "description" \in DOMAIN item
             /\ item.description = Trimmed[Max(DescriptionCells)]
        ELSE "description" \notin DOMAIN item

\* C9 witness: two long plain cells followed by a long cell with a rate
\* token; the description is the second plain cell.
C9_LongRateCellAfterDescriptions ==
    /\ Classified /\ item # None
    /\ \E i, j \in DescriptionCells, k \in 1..Len(row) :
          /\ i < j /\ j < k /\ Trimmed[i] # Trimmed[j]
          /\ Len(Trimmed[k]) > 20 /\ has_keyword(Trimmed[k])
          /\ item.description = Trimmed[j]

(***************************************************************************)
(* Properties of extract_boq_from_pdf (SpecHarvest).                       *)
(***************************************************************************)
Returned == pc = "returned"

Harvested == Returned /\ pdf.opens /\ pdf.debug_writable

\* <<page, table, row>> of every row below the header of a table of two or
\* more rows
DataRows(pages) ==
    UNION { UNION { { <<p, t, r>> : r \in 2..Len(pages[p].tables[t]) } :
                    t \in 1..Len(pages[p].tables) } :
            p \in 1..Len(pages) }

RowAt(pages, pos) == pages[pos[1]].tables[pos[2]][pos[3]]

HeaderAt(pages, pos) == pages[pos[1]].tables[pos[2]][1]

\* page order, then table order, then row order
Before(a, b) ==
    \/ a[1] < b[1]
    \/ a[1] = b[1] /\ a[2] < b[2]
    \/ a[1] = b[1] /\ a[2] = b[2] /\ a[3] < b[3]

OfferedRows(pages) == { pos \in DataRows(pages) : Len(RowAt(pages, pos)) >= 3 }

ClassifiedAt(pages, pos, category) ==
    parse_boq_row(RowAt(pages, pos), HeaderAt(pages, pos), category)

\* the non-None classifications of the rows at the positions S, in order
ItemsOf(S, pages, category) ==
    LET Y == { pos \in S : ClassifiedAt(pages, pos, category) # None }
    IN  [k \in 1..Cardinality(Y) |->
            ClassifiedAt(pages,
                CHOOSE pos \in Y : Cardinality({ q \in Y : Before(q, pos) }) = k - 1,
                category)]

NonEmptyCells(raw_data) == Cardinality({ i \in 1..Len(raw_data) : raw_data[i] # "" })

C3_DebugFailureKeepsItems ==
    (Returned /\ pdf.opens /\ ~pdf.debug_writable) =>
        ret.items = ItemsOf(OfferedRows(pdf.pages), pdf.pages, ret.category)

\* C8: parse_boq_row never raises into the harvest: next to a row whose
\* cell cannot be converted, every offered row with a code cell still has
\* its item in the returned list, a row with an unparsable number included.
C8_MalformedRowsStopNothing ==
    Harvested =>
        \A pos \in OfferedRows(pdf.pages) :
            LET r == RowAt(pdf.pages, pos)
            IN  (~str_raises(r) /\ \E i \in 1..Len(r) : code_pattern(cleaned_of(r)[i]))
                => \E k \in 1..Len(ret.items) :
                      ret.items[k].raw_data = cleaned_of(r)

\* C8 witness: a row with an unconvertible cell was offered before a row
\* with an unparsable number, and the latter is in the list.
C8_RowAfterMalformedRowKept ==
    /\ Harvested
    /\ \E a, b \in OfferedRows(pdf.pages) :
          /\ Before(a, b)
          /\ str_raises(RowAt(pdf.pages, a))
          /\ RowAt(pdf.pages, b) = FullRow
          /\ \E k \in 1..Len(ret.items) : ret.items[k].raw_data = cleaned_of(FullRow)

\* C10 as stated: the list is the non-None classifications of all rows
\* below the header of tables of two or more rows, in order.
C10_AllRowsBelowHeader ==
    Harvested => ret.items = ItemsOf(DataRows(pdf.pages), pdf.pages, ret.category)

\* C10 amended: when the document opens and the debug file is written, the
\* list is the non-None classifications of the rows of 3 or more cells below
\* the header of tables of two or more rows, in page, table, row order;
\* otherwise it is empty.
C10_OfferedRowsInOrder ==
    Returned =>
        ret.items = IF pdf.opens /\ pdf.debug_writable
                    THEN ItemsOf(OfferedRows(pdf.pages), pdf.pages, ret.category)
                    ELSE <<>>

\* C10 witness: two pages, each a table whose header would classify as an
\* item, yielded two different items in page order.
C10_TwoPagesInOrder ==
    /\ Harvested /\ Len(ret.items) = 2 /\ ret.items[1] # ret.items[2]
    /\ \E a, b \in OfferedRows(pdf.pages) :
          /\ a[1] < b[1]
          /\ parse_boq_row(HeaderAt(pdf.pages, a), <<>>, ret.category) # None
          /\ ret.items[1] = ClassifiedAt(pdf.pages, a, ret.category)
          /\ ret.items[2] = ClassifiedAt(pdf.pages, b, ret.category)

(***************************************************************************)
(* Properties of main (Spec).                                              *)
(***************************************************************************)
PathOf == [furniture |-> furniture_path, fitout |-> fitout_path]

Unreadable(f) == f = Missing \/ ~f.opens

\* what the harvest of file f yields for a category
Yield(f, category) ==
    IF f # Missing /\ f.opens /\ f.debug_writable
    THEN ItemsOf(OfferedRows(f.pages), f.pages, category)
    ELSE <<>>

Assembled == pc \in {"save", "done", "save_failed"}

\* C6: a category whose document is missing or cannot be opened ends with
\* an empty list, no exception leaves the harvesting phase, and the other
\* category's list is what its own document yields.
C6_UnreadableCategoryIsolated ==
    /\ pc # "crashed"
    /\ Assembled =>
          \A c \in Categories :
              Unreadable(fs[PathOf[c]]) =>
                  /\ boq_library[c] = <<>>
                  /\ \A o \in Categories \ {c} :
                        boq_library[o] = Yield(fs[PathOf[o]], o)

\* C6 witness: the furniture document did not open and the fit-out list was
\* filled.
C6_FurnitureUnreadableFitoutFilled ==
    /\ pc = "done"
    /\ fs[furniture_path] # Missing /\ ~fs[furniture_path].opens
    /\ boq_library.furniture = <<>>
    /\ Len(boq_library.fitout) >= 2

\* C7: after a run the furniture list has as many items as the furniture
\* document yields and the fitout list as many as the fit-out document, every
\* item carries the category of its list, and the currency is "OMR" always.
C7_BucketsMatchYields ==
    /\ boq_library.metadata.currency = "OMR"
    /\ pc = "done" =>
          \A c \in Categories :
              /\ Len(boq_library[c]) = Len(Yield(fs[PathOf[c]], c))
              /\ \A k \in 1..Len(boq_library[c]) : boq_library[c][k].category = c

\* C7 witness: a finished run with lists of different positive lengths.
C7_BothBucketsFilled ==
    /\ pc = "done"
    /\ Len(boq_library.furniture) = 1
    /\ Len(boq_library.fitout) = 2

====
